---- MODULE Spec2Model ----
(***************************************************************************)
(* Hybrid ranking of hotel-room records (src/src/hybrid_search.py).        *)
(*                                                                         *)
(* Strings whose characters the code inspects (lower(), `in`) are          *)
(* sequences of one-character strings.  Descriptions, identifiers and      *)
(* dictionary keys are only tested for emptiness and equality and are      *)
(* plain strings.  Scores are exact rationals [n, d] in lowest terms with  *)
(* d > 0 (the code uses binary floats; rounding is not modelled).          *)
(* A dict is a function; an insertion-ordered corpus is a sequence of      *)
(* [url, json] items with distinct urls.                                   *)
(***************************************************************************)
EXTENDS Integers, Sequences, FiniteSets, TLC

VARIABLES keyword_weight, semantic_weight, embedding_cache, provider_calls,
          query_json, vision_results, op, args, result, locals,
          image_descriptions

vars == <<keyword_weight, semantic_weight, embedding_cache, provider_calls,
          query_json, vision_results, op, args, result, locals,
          image_descriptions>>

(***************************************************************************)
(* Bounds of the model                                                     *)
(***************************************************************************)
MaxQueryFeatures == 2
MaxVisionFeatures == 2
MaxCapacity == 2
MaxCorpus == 2
MaxResults == 2

(***************************************************************************)
(* Numbers                                                                 *)
(***************************************************************************)
Abs(x) == IF x < 0 THEN -x ELSE x

RECURSIVE GCD(_, _)
GCD(a, b) == IF b = 0 THEN a ELSE GCD(b, a % b)

\* the value n/d of a float division, d > 0
Frac(n, d) == LET g == GCD(Abs(n), d) IN [n |-> n \div g, d |-> d \div g]

Zero == Frac(0, 1)
RAdd(x, y) == Frac(x.n * y.d + y.n * x.d, x.d * y.d)
RMul(x, y) == Frac(x.n * y.n, x.d * y.d)
RGeq(x, y) == x.n * y.d >= y.n * x.d
RLess(x, y) == x.n * y.d < y.n * x.d

(***************************************************************************)
(* Strings                                                                 *)
(***************************************************************************)
UpperChars == <<"A", "B", "C", "D", "E", "F", "G", "H", "I", "J", "K", "L", "M", "N", "O", "P", "Q", "R", "S", "T", "U", "V", "W", "X", "Y", "Z">>
LowerChars == <<"a", "b", "c", "d", "e", "f", "g", "h", "i", "j", "k", "l", "m", "n", "o", "p", "q", "r", "s", "t", "u", "v", "w", "x", "y", "z">>

UpperSet == {UpperChars[i] : i \in DOMAIN UpperChars}
LowerOf == [c \in UpperSet |-> LowerChars[CHOOSE i \in DOMAIN UpperChars : UpperChars[i] = c]]

LowerChar(c) == IF c \in UpperSet THEN LowerOf[c] ELSE c

\* str.lower()
Lower(s) == [i \in DOMAIN s |-> LowerChar(s[i])]

\* a in b, for strings
IsSubstring(a, b) == \E i \in 0..(Len(b) - Len(a)) : SubSeq(b, i + 1, i + Len(a)) = a

\* [f.lower() for f in features]
LowerAll(features) == [i \in DOMAIN features |-> Lower(features[i])]

(***************************************************************************)
(* Dicts                                                                   *)
(***************************************************************************)
EmptyDict == [k \in {} |-> 0]

\* d.get(k, default)
Get(d, k, default) == IF k \in DOMAIN d THEN d[k] ELSE default

\* d[k] = v
Put(d, k, v) == [x \in (DOMAIN d) \cup {k} |-> IF x = k THEN v ELSE d[x]]

\* None (a JSON null) as the value of a field, one encoding per type of
\* field: room_type and view_type, features, max_capacity, description
NoneText == <<"None">>
NoneList == <<<<"None">>>>
NoneCapacity == -1
NoneDescription == "None"

\* not text, for a description: true of "" and of None
Falsy(text) == text \in {"", NoneDescription}

(***************************************************************************)
(* sorted(items, key=lambda x: x[1], reverse=True): stable, descending     *)
(***************************************************************************)
\* variant: an item is placed before the items of equal score
RECURSIVE InsertDesc_BeforeEquals(_, _, _)
InsertDesc_BeforeEquals(sorted, x, i) ==
    IF i > Len(sorted) THEN Append(sorted, x)
    ELSE IF RGeq(x.score, sorted[i].score)
         THEN SubSeq(sorted, 1, i - 1) \o <<x>> \o SubSeq(sorted, i, Len(sorted))
         ELSE InsertDesc_BeforeEquals(sorted, x, i + 1)

RECURSIVE InsertDesc(_, _, _)
InsertDesc(sorted, x, i) ==
    IF i > Len(sorted) THEN Append(sorted, x)
    ELSE IF RLess(sorted[i].score, x.score)
         THEN SubSeq(sorted, 1, i - 1) \o <<x>> \o SubSeq(sorted, i, Len(sorted))
         ELSE InsertDesc(sorted, x, i + 1)

RECURSIVE SortedDesc(_)
SortedDesc(items) ==
    IF items = <<>> THEN <<>>
    ELSE InsertDesc(SortedDesc(SubSeq(items, 1, Len(items) - 1)), items[Len(items)], 1)

(***************************************************************************)
(* keyword_search                                                          *)
(***************************************************************************)
Str_any == <<"a", "n", "y">>
Str_standard == <<"s", "t", "a", "n", "d", "a", "r", "d">>

\* variant: the inner loop without its break
RECURSIVE InnerFeatureLoop_NoBreak(_, _, _)
InnerFeatureLoop_NoBreak(feature, vision_features, j) ==
    IF j > Len(vision_features) THEN 0
    ELSE (IF IsSubstring(feature, vision_features[j]) THEN 1 ELSE 0)
         + InnerFeatureLoop_NoBreak(feature, vision_features, j + 1)

\* variant: only the candidate's last feature decides
InnerFeatureLoop_LastOnly(feature, vision_features, j) ==
    IF vision_features # <<>> /\ IsSubstring(feature, vision_features[Len(vision_features)]) THEN 1 ELSE 0

\* lines 134-138: the inner loop over the candidate's features from position
\* j on; the number of times the query feature is appended (the break stops
\* at the first hit)
RECURSIVE InnerFeatureLoop(_, _, _)
InnerFeatureLoop(feature, vision_features, j) ==
    IF j > Len(vision_features) THEN 0
    ELSE IF IsSubstring(feature, vision_features[j]) THEN 1
         ELSE InnerFeatureLoop(feature, vision_features, j + 1)

\* variant: a matched feature is put in front of the earlier matches
RECURSIVE FeatureLoop_Prepend(_, _, _)
FeatureLoop_Prepend(query_features, vision_features, i) ==
    IF i > Len(query_features) THEN <<>>
    ELSE FeatureLoop_Prepend(query_features, vision_features, i + 1)
         \o [k \in 1..InnerFeatureLoop(query_features[i], vision_features, 1) |-> query_features[i]]

\* lines 132-138: matched_features after the outer loop from position i on
RECURSIVE FeatureLoop(_, _, _)
FeatureLoop(query_features, vision_features, i) ==
    IF i > Len(query_features) THEN <<>>
    ELSE [k \in 1..InnerFeatureLoop(query_features[i], vision_features, 1) |-> query_features[i]]
         \o FeatureLoop(query_features, vision_features, i + 1)

\* variant: "standard" is not a sentinel of view_type
ViewTypeActive_AnyOnly(query_view_type) == query_view_type # <<>> /\ query_view_type # Str_any

RoomTypeActive(query_room_type) == query_room_type # <<>> /\ query_room_type # Str_any
CapacityActive(query_max_capacity) == query_max_capacity > 0
ViewTypeActive(query_view_type) == query_view_type # <<>> /\ query_view_type \notin {Str_any, Str_standard}
FeaturesActive(query_features) == query_features # <<>>

\* variant: strict comparison of capacities
CapacityMatch_Strict(query_max_capacity, vision_max_capacity) == vision_max_capacity > query_max_capacity

\* variant: equality instead of containment
ViewMatch_Equal(query_view_type, vision_view_type) == query_view_type = vision_view_type

\* variant: a query without constraints scores 1.0
Normalize_DefaultOne(score, max_score) == IF max_score > 0 THEN Frac(score, max_score) ELSE Frac(1, 1)

RoomMatch(query_room_type, vision_room_type) == IsSubstring(query_room_type, vision_room_type)
CapacityMatch(query_max_capacity, vision_max_capacity) == vision_max_capacity >= query_max_capacity
ViewMatch(query_view_type, vision_view_type) == IsSubstring(query_view_type, vision_view_type)

\* score / max_score if max_score > 0 else 0.0
Normalize(score, max_score) == IF max_score > 0 THEN Frac(score, max_score) ELSE Zero

\* lines 76-147: one pass of the scoring loop, for one candidate
ScoreCandidate(q, vision_json) ==
    LET vision_room_type == Lower(Get(vision_json, "room_type", <<>>))
        vision_max_capacity == Get(vision_json, "max_capacity", 0)
        vision_view_type == Lower(Get(vision_json, "view_type", <<>>))
        vision_features == LowerAll(Get(vision_json, "features", <<>>))
        room_match == RoomMatch(q.room_type, vision_room_type)
        capacity_match == CapacityMatch(q.max_capacity, vision_max_capacity)
        view_match == ViewMatch(q.view_type, vision_view_type)
        matched_features == FeatureLoop(q.features, vision_features, 1)
        d0 == [query_description |-> q.description]
        d1 == IF RoomTypeActive(q.room_type)
              THEN Put(d0, "room_type", [query |-> q.room_type, vision |-> vision_room_type, match |-> room_match])
              ELSE d0
        d2 == IF CapacityActive(q.max_capacity)
              THEN Put(d1, "max_capacity", [query |-> q.max_capacity, vision |-> vision_max_capacity, match |-> capacity_match])
              ELSE d1
        d3 == IF ViewTypeActive(q.view_type)
              THEN Put(d2, "view_type", [query |-> q.view_type, vision |-> vision_view_type, match |-> view_match])
              ELSE d2
        d4 == IF FeaturesActive(q.features)
              THEN Put(d3, "features", [query |-> q.features, vision |-> vision_features, matches |-> matched_features])
              ELSE d3
        max_score == (IF RoomTypeActive(q.room_type) THEN 1 ELSE 0)
                     + (IF CapacityActive(q.max_capacity) THEN 1 ELSE 0)
                     + (IF ViewTypeActive(q.view_type) THEN 1 ELSE 0)
                     + (IF FeaturesActive(q.features) THEN Len(q.features) ELSE 0)
        score == (IF RoomTypeActive(q.room_type) /\ room_match THEN 1 ELSE 0)
                 + (IF CapacityActive(q.max_capacity) /\ capacity_match THEN 1 ELSE 0)
                 + (IF ViewTypeActive(q.view_type) /\ view_match THEN 1 ELSE 0)
                 + (IF FeaturesActive(q.features) THEN Len(matched_features) ELSE 0)
    IN [score |-> Normalize(score, max_score), details |-> d4]

\* lines 68-72: the query elements keyword_search extracts
QueryElements(q_json) ==
    [room_type |-> Lower(Get(q_json, "room_type", <<>>)),
     max_capacity |-> Get(q_json, "max_capacity", 0),
     view_type |-> Lower(Get(q_json, "view_type", <<>>)),
     features |-> LowerAll(Get(q_json, "features", <<>>)),
     description |-> Get(q_json, "description", "")]

\* variant: strict comparison with min_score
MeetsThreshold_Strict(normalized_score, min_score) == RLess(min_score, normalized_score)

\* line 150: the threshold test
MeetsThreshold(normalized_score, min_score) == RGeq(normalized_score, min_score)

\* lines 150-151: what one candidate adds to results
Appended(url, scored, min_score) ==
    IF MeetsThreshold(scored.score, min_score)
    THEN <<[url |-> url, score |-> scored.score, details |-> scored.details]>>
    ELSE <<>>

\* lines 75-151: results after the loop over vision_results.items() from item i on
RECURSIVE ScoreLoop(_, _, _, _)
ScoreLoop(q, items, min_score, i) ==
    IF i > Len(items) THEN <<>>
    ELSE Appended(items[i].url, ScoreCandidate(q, items[i].json), min_score)
         \o ScoreLoop(q, items, min_score, i + 1)

\* lines 64-154
keyword_search(q_json, items, min_score) ==
    SortedDesc(ScoreLoop(QueryElements(q_json), items, min_score, 1))

\* lines 68-71: None.lower() raises AttributeError, iterating None raises
\* TypeError
QueryExtractionRaises(q_json) ==
    \/ Get(q_json, "room_type", <<>>) = NoneText
    \/ Get(q_json, "view_type", <<>>) = NoneText
    \/ Get(q_json, "features", <<>>) = NoneList

\* lines 83-130, for one candidate, the query elements extracted: None > 0
\* and None >= n raise TypeError, None.lower() AttributeError, iterating
\* None TypeError; a candidate's field is read only when the query's is active
CandidateRaises(q_json, vision_json) ==
    \/ /\ RoomTypeActive(Lower(Get(q_json, "room_type", <<>>)))
       /\ Get(vision_json, "room_type", <<>>) = NoneText
    \/ Get(q_json, "max_capacity", 0) = NoneCapacity
    \/ /\ CapacityActive(Get(q_json, "max_capacity", 0))
       /\ Get(vision_json, "max_capacity", 0) = NoneCapacity
    \/ /\ ViewTypeActive(Lower(Get(q_json, "view_type", <<>>)))
       /\ Get(vision_json, "view_type", <<>>) = NoneText
    \/ /\ FeaturesActive(Get(q_json, "features", <<>>))
       /\ Get(vision_json, "features", <<>>) = NoneList

\* variant: the fields read as query_json[key] and vision_json[key]
keyword_search_raises_OnMissingKey(q_json, items) ==
    \/ {"room_type", "max_capacity", "view_type", "features", "description"} \ DOMAIN q_json # {}
    \/ \E i \in DOMAIN items :
          {"room_type", "max_capacity", "view_type", "features"} \ DOMAIN items[i].json # {}

\* lines 64-154: the call ends in an exception instead of a return
keyword_search_raises(q_json, items) ==
    \/ QueryExtractionRaises(q_json)
    \/ \E i \in DOMAIN items : CandidateRaises(q_json, items[i].json)

(***************************************************************************)
(* get_embedding, cosine_similarity, semantic_search                       *)
(***************************************************************************)
RECURSIVE DotFrom(_, _, _)
DotFrom(a, b, i) == IF i > Len(a) THEN 0 ELSE a[i] * b[i] + DotFrom(a, b, i + 1)

\* np.dot(a, b)
Dot(a, b) == DotFrom(a, b, 1)

\* np.linalg.norm(a), exact on the vectors of the embedding table
Norm(a) == CHOOSE r \in 0..Dot(a, a) : r * r = Dot(a, a)

cosine_similarity(a, b) == Frac(Dot(a, b), Norm(a) * Norm(b))

\* variant: the provider is asked on every call and the entry overwritten
get_embedding_Refetch(st, text, oracle) ==
    [cache |-> Put(st.cache, text, oracle[text]),
     calls |-> Append(st.calls, text),
     embedding |-> oracle[text]]

\* lines 33-43; st = [cache, calls]; oracle[text] is what the provider
\* answers when asked for text
get_embedding(st, text, oracle) ==
    IF text \in DOMAIN st.cache
    THEN [cache |-> st.cache, calls |-> st.calls, embedding |-> st.cache[text]]
    ELSE [cache |-> Put(st.cache, text, oracle[text]),
          calls |-> Append(st.calls, text),
          embedding |-> oracle[text]]

\* line 180: if not vision_description: continue
SkipsCandidate(vision_description) == Falsy(vision_description)

\* lines 183-186: one candidate scored; e is what get_embedding returned
\* for its description
SemanticStep(query_embedding, url, e, results) ==
    [cache |-> e.cache, calls |-> e.calls,
     results |-> Append(results, [url |-> url, score |-> cosine_similarity(query_embedding, e.embedding)])]

\* lines 177-186: the loop over vision_results.items() from item i on;
\* st = [cache, calls, results]
RECURSIVE SemanticLoop(_, _, _, _, _)
SemanticLoop(query_embedding, items, i, st, oracle) ==
    IF i > Len(items) THEN st
    ELSE IF SkipsCandidate(Get(items[i].json, "description", ""))
         THEN SemanticLoop(query_embedding, items, i + 1, st, oracle)
         ELSE SemanticLoop(query_embedding, items, i + 1,
                           SemanticStep(query_embedding, items[i].url,
                                        get_embedding(st, Get(items[i].json, "description", ""), oracle),
                                        st.results),
                           oracle)

\* lines 173-186, q being what get_embedding returned for the query description
SemanticFrom(q, items, oracle) ==
    SemanticLoop(q.embedding, items, 1, [cache |-> q.cache, calls |-> q.calls, results |-> <<>>], oracle)

\* line 189
SemanticSorted(looped) == [looped EXCEPT !.results = SortedDesc(@)]

\* variant: with an empty query description every candidate is returned
\* with similarity 0.0
semantic_search_ZeroScores(q_json, items, st, oracle) ==
    IF Falsy(Get(q_json, "description", ""))
    THEN [cache |-> st.cache, calls |-> st.calls,
          results |-> [i \in DOMAIN items |-> [url |-> items[i].url, score |-> Zero]]]
    ELSE SemanticSorted(SemanticFrom(get_embedding(st, Get(q_json, "description", ""), oracle), items, oracle))

\* lines 167-189
semantic_search(q_json, items, st, oracle) ==
    IF Falsy(Get(q_json, "description", ""))
    THEN [cache |-> st.cache, calls |-> st.calls, results |-> <<>>]
    ELSE SemanticSorted(SemanticFrom(get_embedding(st, Get(q_json, "description", ""), oracle), items, oracle))

(***************************************************************************)
(* hybrid_search                                                           *)
(***************************************************************************)
UrlsOf(results) == {results[i].url : i \in DOMAIN results}

\* {url: score for url, score, _ in keyword_results}
ScoreDict(results) == [u \in UrlsOf(results) |-> results[CHOOSE i \in DOMAIN results : results[i].url = u].score]

\* {url: details for url, _, details in keyword_results}
DetailsDict(results) == [u \in UrlsOf(results) |-> results[CHOOSE i \in DOMAIN results : results[i].url = u].details]

\* variant: strict comparison with semantic_min_score
PassesSemantic_Strict(score, semantic_min_score) == RLess(semantic_min_score, score)

\* the test of line 221: if score >= semantic_min_score
PassesSemantic(score, semantic_min_score) == RGeq(score, semantic_min_score)

RECURSIVE FilterSemantic(_, _, _)
FilterSemantic(semantic_results, semantic_min_score, i) ==
    IF i > Len(semantic_results) THEN <<>>
    ELSE (IF PassesSemantic(semantic_results[i].score, semantic_min_score)
          THEN <<semantic_results[i]>> ELSE <<>>)
         \o FilterSemantic(semantic_results, semantic_min_score, i + 1)

\* variant: every semantic result enters the semantic channel
SemanticScores_Unfiltered(semantic_results, semantic_min_score) == ScoreDict(semantic_results)

\* line 221
SemanticScores(semantic_results, semantic_min_score) == ScoreDict(FilterSemantic(semantic_results, semantic_min_score, 1))

\* variant: only the identifiers present in both channels
AllUrls_Intersection(keyword_scores, semantic_scores) == (DOMAIN keyword_scores) \cap (DOMAIN semantic_scores)

\* line 227
AllUrls(keyword_scores, semantic_scores) == (DOMAIN keyword_scores) \cup (DOMAIN semantic_scores)

\* variant: the weighted sum divided by the sum of the weights
CombinedScore_Renormalized(kw, sw, keyword_score, semantic_score) ==
    Frac(RAdd(RMul(kw, keyword_score), RMul(sw, semantic_score)).n * RAdd(kw, sw).d,
         RAdd(RMul(kw, keyword_score), RMul(sw, semantic_score)).d * RAdd(kw, sw).n)

\* line 234
CombinedScore(kw, sw, keyword_score, semantic_score) == RAdd(RMul(kw, keyword_score), RMul(sw, semantic_score))

\* variant: the default detail carries the per-field entries of a candidate
\* that matched nothing
CombineOne_DefaultBreakdown(url, keyword_scores, keyword_details, semantic_scores, kw, sw) ==
    LET keyword_score == Get(keyword_scores, url, Zero)
        semantic_score == Get(semantic_scores, url, Zero)
        combined_score == CombinedScore(kw, sw, keyword_score, semantic_score)
        details == Get(keyword_details, url, [features |-> [query |-> <<>>, vision |-> <<>>, matches |-> <<>>]])
        d1 == Put(details, "semantic_score", semantic_score)
        d2 == Put(d1, "keyword_score", keyword_score)
        d3 == Put(d2, "combined_score", combined_score)
    IN [url |-> url, score |-> combined_score, details |-> d3]

\* lines 230-244: the tuple stored for url
CombineOne(url, keyword_scores, keyword_details, semantic_scores, kw, sw) ==
    LET keyword_score == Get(keyword_scores, url, Zero)
        semantic_score == Get(semantic_scores, url, Zero)
        combined_score == CombinedScore(kw, sw, keyword_score, semantic_score)
        details == Get(keyword_details, url, EmptyDict)
        d1 == Put(details, "semantic_score", semantic_score)
        d2 == Put(d1, "keyword_score", keyword_score)
        d3 == Put(d2, "combined_score", combined_score)
    IN [url |-> url, score |-> combined_score, details |-> d3]

\* lines 229-244 and combined_results.values(): the tuples in the order in
\* which the loop visits all_urls
CombinedValues(order, keyword_scores, keyword_details, semantic_scores, kw, sw) ==
    [i \in DOMAIN order |-> CombineOne(order[i], keyword_scores, keyword_details, semantic_scores, kw, sw)]

Min(a, b) == IF a <= b THEN a ELSE b
Max(a, b) == IF a >= b THEN a ELSE b

\* variant: one entry too many
SliceTo_OneMore(s, k) == IF k >= 0 THEN SubSeq(s, 1, Min(k + 1, Len(s))) ELSE SubSeq(s, 1, Max(0, Len(s) + k))

\* s[:k]
SliceTo(s, k) == IF k >= 0 THEN SubSeq(s, 1, Min(k, Len(s))) ELSE SubSeq(s, 1, Max(0, Len(s) + k))

\* the orders in which a set can be iterated
Orderings(S) == {s \in [1..Cardinality(S) -> S] : \A i, j \in 1..Cardinality(S) : i # j => s[i] # s[j]}

RECURSIVE Restrict(_, _, _)
Restrict(seq, S, i) ==
    IF i > Len(seq) THEN <<>>
    ELSE (IF seq[i] \in S THEN <<seq[i]>> ELSE <<>>) \o Restrict(seq, S, i + 1)

\* for url in all_urls: a set of strings is iterated in the order of the
\* strings' (per-process randomized) hashes; hash_order lists the corpus
\* identifiers in that order
IterationOrder(S, hash_order) == Restrict(hash_order, S, 1)

\* line 248, with the locals of the call
HybridReturn(semantic, keyword_scores, semantic_scores, sorted_results, max_results) ==
    [cache |-> semantic.cache, calls |-> semantic.calls,
     keyword_scores |-> keyword_scores, semantic_scores |-> semantic_scores,
     all_urls |-> AllUrls(keyword_scores, semantic_scores),
     sorted_results |-> sorted_results,
     results |-> SliceTo(sorted_results, max_results)]

\* variant: the slice taken before the sort
HybridRank_TruncateFirst(semantic, keyword_scores, keyword_details, semantic_scores, max_results, kw, sw, hash_order) ==
    [HybridReturn(semantic, keyword_scores, semantic_scores,
                  SortedDesc(CombinedValues(IterationOrder(AllUrls(keyword_scores, semantic_scores), hash_order),
                                            keyword_scores, keyword_details, semantic_scores, kw, sw)),
                  max_results)
     EXCEPT !.results = SortedDesc(SliceTo(CombinedValues(IterationOrder(AllUrls(keyword_scores, semantic_scores), hash_order),
                                                          keyword_scores, keyword_details, semantic_scores, kw, sw),
                                           max_results))]

\* lines 224-248
HybridRank(semantic, keyword_scores, keyword_details, semantic_scores, max_results, kw, sw, hash_order) ==
    HybridReturn(semantic, keyword_scores, semantic_scores,
                 SortedDesc(CombinedValues(IterationOrder(AllUrls(keyword_scores, semantic_scores), hash_order),
                                           keyword_scores, keyword_details, semantic_scores, kw, sw)),
                 max_results)

\* lines 214-248, given what keyword_search (line 211) and semantic_search
\* (line 218) returned
HybridCombine(keyword_results, semantic, semantic_min_score, max_results, kw, sw, hash_order) ==
    HybridRank(semantic, ScoreDict(keyword_results), DetailsDict(keyword_results),
               SemanticScores(semantic.results, semantic_min_score), max_results, kw, sw, hash_order)

(***************************************************************************)
(* format_search_results                                                   *)
(***************************************************************************)
\* f"{x:.2f}": x in hundredths, rounded to the nearest, ties to even
Hundredths(x) ==
    LET q == (100 * x.n) \div x.d
        r == (100 * x.n) % x.d
    IN IF 2 * r > x.d \/ (2 * r = x.d /\ q % 2 = 1) THEN q + 1 ELSE q

\* lines 273-288: the line of a scored field, when details has one
FieldLine(details, key) ==
    IF key \in DOMAIN details
    THEN <<[tick |-> details[key].match, query |-> details[key].query, found |-> details[key].vision]>>
    ELSE <<>>

\* lines 291-300
FeatureLines(details) ==
    IF "features" \in DOMAIN details
    THEN <<[matched |-> Len(details.features.matches), of |-> Len(details.features.query),
            ticks |-> [k \in DOMAIN details.features.query |->
                          \E m \in DOMAIN details.features.matches :
                             details.features.matches[m] = details.features.query[k]],
            found |-> details.features.vision]>>
    ELSE <<>>

\* vision_results.get(url, {})
VisionGet(items, url) ==
    IF \E i \in DOMAIN items : items[i].url = url
    THEN items[CHOOSE i \in DOMAIN items : items[i].url = url].json
    ELSE EmptyDict

\* line 304: details.get("query_description", "N/A")
ShownQueryDescription(details) == Get(details, "query_description", "N/A")

\* lines 266-310: what is written for match number i
FormatMatch(i, entry, items) ==
    [rank |-> i, url |-> entry.url,
     combined_score |-> Hundredths(entry.score),
     keyword_score |-> Hundredths(Get(entry.details, "keyword_score", Zero)),
     semantic_score |-> Hundredths(Get(entry.details, "semantic_score", Zero)),
     room_type |-> FieldLine(entry.details, "room_type"),
     max_capacity |-> FieldLine(entry.details, "max_capacity"),
     view_type |-> FieldLine(entry.details, "view_type"),
     features |-> FeatureLines(entry.details),
     query_description |-> ShownQueryDescription(entry.details),
     room_description |-> Get(VisionGet(items, entry.url), "description", "N/A")]

\* lines 261-312
format_search_results(search_results, items) ==
    IF search_results = <<>>
    THEN [header |-> "No matching rooms found.", found |-> 0, matches |-> <<>>]
    ELSE [header |-> "Found matching rooms:", found |-> Len(search_results),
          matches |-> [i \in DOMAIN search_results |-> FormatMatch(i, search_results[i], items)]]

(***************************************************************************)
(* Inputs: field values, queries, candidate records, corpora               *)
(***************************************************************************)
Str_double == <<"d", "o", "u", "b", "l", "e">>
Str_Double == <<"D", "o", "u", "b", "l", "e">>
Str_single == <<"s", "i", "n", "g", "l", "e">>
Str_suite == <<"s", "u", "i", "t", "e">>
Str_Any == <<"A", "n", "y">>
Str_Standard == <<"S", "t", "a", "n", "d", "a", "r", "d">>
Str_sea == <<"s", "e", "a">>
Str_SeaView == <<"S", "e", "a", " ", "V", "i", "e", "w">>
Str_sea_view == <<"s", "e", "a", " ", "v", "i", "e", "w">>
Str_garden_view == <<"g", "a", "r", "d", "e", "n", " ", "v", "i", "e", "w">>
Str_balcony == <<"b", "a", "l", "c", "o", "n", "y">>
Str_private_balcony == <<"p", "r", "i", "v", "a", "t", "e", " ", "b", "a", "l", "c", "o", "n", "y">>
Str_PrivateBalcony == <<"P", "r", "i", "v", "a", "t", "e", " ", "B", "a", "l", "c", "o", "n", "y">>
Str_air_conditioning == <<"a", "i", "r", " ", "c", "o", "n", "d", "i", "t", "i", "o", "n", "i", "n", "g">>
Str_tv == <<"t", "v">>
Str_TV == <<"T", "V">>

Desc_query == "Double room with sea view, balcony, and air conditioning."
Desc_image1 == "Spacious double room with a beautiful sea view and a private balcony."
Desc_image2 == "Double room overlooking the garden with a balcony and desk."
Desc_image3 == "Comfortable single room with sea view and essential amenities."

SeqsUpTo(S, n) == UNION {[1..k -> S] : k \in 0..n}

Query(room_type, max_capacity, view_type, features, description) ==
    [room_type |-> room_type, max_capacity |-> max_capacity, view_type |-> view_type,
     features |-> features, description |-> description]

Candidate(room_type, max_capacity, view_type, features, description) ==
    [room_type |-> room_type, max_capacity |-> max_capacity, view_type |-> view_type,
     features |-> features, description |-> description]

Item(url, json) == [url |-> url, json |-> json]

\* the query and the third record of the example of lines 317-347, with the
\* query's view_type "sea"
ScenarioQuery == Query(Str_double, 2, Str_sea, <<Str_balcony, Str_air_conditioning>>, Desc_query)
ScenarioFull == Candidate(Str_double, 2, Str_sea_view, <<Str_private_balcony, Str_air_conditioning, Str_TV>>, Desc_image1)
ScenarioSingle == Candidate(Str_single, 1, Str_sea_view, <<Str_balcony, Str_air_conditioning>>, Desc_image3)

\* inputs of the scoring checks: every combination of a few values per field
QueryFeaturePool == {Str_balcony, Str_tv}
VisionFeaturePool == {Str_PrivateBalcony, Str_TV}

KeywordQueries ==
    {Query(r, c, v, f, Desc_query) :
        r \in {Str_Any, Str_double}, c \in {0, MaxCapacity}, v \in {Str_Standard, Str_sea},
        f \in SeqsUpTo(QueryFeaturePool, MaxQueryFeatures)}
    \cup {ScenarioQuery, Query(<<>>, 0, <<>>, <<>>, "")}

KeywordCandidates ==
    {Candidate(r, c, Str_SeaView, f, Desc_image2) :
        r \in {Str_single, Str_Double}, c \in {MaxCapacity - 1, MaxCapacity},
        f \in SeqsUpTo(VisionFeaturePool, MaxVisionFeatures)}

\* one record, or a record and the same record with one more feature
KeywordCorpora ==
    {<<Item("image1.jpg", c)>> : c \in KeywordCandidates \cup {ScenarioFull, ScenarioSingle}}
    \cup {<<Item("image1.jpg", c), Item("image2.jpg", [c EXCEPT !.features = Append(@, f)])>> :
            c \in {x \in KeywordCandidates : Len(x.features) < MaxVisionFeatures}, f \in VisionFeaturePool}

KeywordMinScores == {Zero, Frac(3, 10), Frac(1, 2)}

(***************************************************************************)
(* keyword_search called on an instance                                    *)
(***************************************************************************)
\* __init__ (lines 27-29) and the state before the first call; args holds
\* the caller's keyword_min_score, semantic_min_score and max_results
InitInstance(kw, sw) ==
    /\ keyword_weight = kw
    /\ semantic_weight = sw
    /\ embedding_cache = EmptyDict
    /\ provider_calls = <<>>
    /\ op = "init"
    /\ result = <<>>
    /\ locals = EmptyDict
    /\ image_descriptions = EmptyDict

InitKeyword ==
    /\ InitInstance(Frac(7, 10), Frac(3, 10))
    /\ query_json \in KeywordQueries
    /\ vision_results \in KeywordCorpora
    /\ args \in [keyword_min_score : KeywordMinScores, semantic_min_score : {Frac(1, 2)}, max_results : {5}]

\* the call named opname ends in an exception: nothing is returned and the
\* instance is as before
Raise(opname) ==
    /\ result' = <<>>
    /\ op' = opname
    /\ locals' = [raised |-> TRUE]
    /\ UNCHANGED <<keyword_weight, semantic_weight, embedding_cache, provider_calls, query_json, vision_results, args, image_descriptions>>

\* variant: the query is normalised in place
KeywordSearch_LowersQuery ==
    /\ result' = keyword_search(query_json, vision_results, args.keyword_min_score)
    /\ op' = "keyword_search"
    /\ locals' = EmptyDict
    /\ query_json' = QueryElements(query_json)
    /\ UNCHANGED <<keyword_weight, semantic_weight, embedding_cache, provider_calls, vision_results, args, image_descriptions>>

KeywordSearch ==
    IF keyword_search_raises(query_json, vision_results)
    THEN Raise("keyword_search")
    ELSE /\ result' = keyword_search(query_json, vision_results, args.keyword_min_score)
         /\ op' = "keyword_search"
         /\ locals' = EmptyDict
         /\ UNCHANGED <<keyword_weight, semantic_weight, embedding_cache, provider_calls, query_json, vision_results, args, image_descriptions>>

NextKeyword == KeywordSearch

SpecKeyword == InitKeyword /\ [][NextKeyword]_vars

(***************************************************************************)
(* The instance serving keyword, semantic and hybrid searches              *)
(***************************************************************************)
Queries ==
    {ScenarioQuery,
     Query(Str_double, 2, Str_sea, <<Str_balcony, Str_air_conditioning>>, ""),
     Query(Str_Any, 0, Str_Standard, <<>>, Desc_query),
     Query(<<>>, 0, <<>>, <<>>, ""),
     Query(Str_suite, 2, Str_sea, <<>>, Desc_query),
     Query(<<>>, 3, Str_sea, <<Str_balcony, Str_balcony>>, Desc_query)}

GardenDouble == Candidate(Str_Double, 2, Str_garden_view, <<Str_balcony>>, Desc_image2)

ItemPool ==
    {Item("image1.jpg", ScenarioFull),
     Item("image2.jpg", GardenDouble),
     Item("image3.jpg", ScenarioSingle),
     Item("image4.jpg", Candidate(Str_suite, 4, Str_sea_view, <<>>, ""))}

\* the corpora: up to MaxCorpus records under distinct identifiers, in any order
Corpora == UNION {{s \in [1..k -> ItemPool] : \A i, j \in 1..k : i # j => s[i] # s[j]} : k \in 0..MaxCorpus}

\* the defaults, the weights of the example, and weights that do not sum to 1
Weights == {<<Frac(7, 10), Frac(3, 10)>>, <<Frac(6, 10), Frac(4, 10)>>, <<Frac(1, 2), Frac(1, 1)>>}

HybridKeywordMinScores == {Zero, Frac(3, 10), Frac(1, 2)}
SemanticMinScores == {Frac(1, 2), Frac(7, 10)}
MaxResultsValues == (-1)..MaxResults

\* the texts the embedding provider is asked about and the vectors it can
\* answer with
Texts == {Desc_query, Desc_image1, Desc_image2, Desc_image3}

ProviderAnswers(text) ==
    CASE text = Desc_query -> {<<1, 1, 1, 1>>}
      [] text = Desc_image1 -> {<<2, 0, 0, 0>>}
      [] text = Desc_image2 -> {<<1, 2, 2, 0>>}
      [] text = Desc_image3 -> {<<0, 0, -2, 0>>}

Oracles == {f \in [Texts -> UNION {ProviderAnswers(t) : t \in Texts}] : \A t \in Texts : f[t] \in ProviderAnswers(t)}

CorpusUrls == {vision_results[i].url : i \in DOMAIN vision_results}

Init ==
    /\ \E w \in Weights : InitInstance(w[1], w[2])
    /\ query_json \in Queries
    /\ vision_results \in Corpora
    /\ args \in [keyword_min_score : HybridKeywordMinScores, semantic_min_score : SemanticMinScores, max_results : MaxResultsValues]

SemanticSearch ==
    \E oracle \in Oracles :
        \E r \in {semantic_search(query_json, vision_results, [cache |-> embedding_cache, calls |-> provider_calls], oracle)} :
           /\ result' = r.results
           /\ embedding_cache' = r.cache
           /\ provider_calls' = r.calls
           /\ op' = "semantic_search"
           /\ locals' = EmptyDict
           /\ UNCHANGED <<keyword_weight, semantic_weight, query_json, vision_results, args, image_descriptions>>

\* hybrid_search, lines 211-248; hash_order is the order in which this
\* process iterates the identifiers of all_urls
HybridSearch ==
    IF keyword_search_raises(query_json, vision_results)
    THEN Raise("hybrid_search")
    ELSE
    \E oracle \in Oracles :
      \E keyword_results \in {keyword_search(query_json, vision_results, args.keyword_min_score)},
         semantic \in {semantic_search(query_json, vision_results, [cache |-> embedding_cache, calls |-> provider_calls], oracle)} :
        \E hash_order \in Orderings(AllUrls(ScoreDict(keyword_results), SemanticScores(semantic.results, args.semantic_min_score))) :
        \E r \in {HybridCombine(keyword_results, semantic, args.semantic_min_score, args.max_results,
                                 keyword_weight, semantic_weight, hash_order)} :
           /\ result' = r.results
           /\ embedding_cache' = r.cache
           /\ provider_calls' = r.calls
           /\ op' = "hybrid_search"
           /\ locals' = [keyword_scores |-> r.keyword_scores, semantic_scores |-> r.semantic_scores,
                         all_urls |-> r.all_urls, sorted_results |-> r.sorted_results]
           /\ UNCHANGED <<keyword_weight, semantic_weight, query_json, vision_results, args, image_descriptions>>

\* format_search_results(search_results, vision_results), lines 250-312,
\* called with what hybrid_search returned
FormatSearchResults ==
    /\ op = "hybrid_search"
    /\ "raised" \notin DOMAIN locals
    /\ result' = format_search_results(result, vision_results)
    /\ op' = "format_search_results"
    /\ locals' = [search_results |-> result]
    /\ UNCHANGED <<keyword_weight, semantic_weight, embedding_cache, provider_calls, query_json, vision_results, args, image_descriptions>>

Next == KeywordSearch \/ SemanticSearch \/ HybridSearch \/ FormatSearchResults

Spec == Init /\ [][Next]_vars

(***************************************************************************)
(* Properties                                                              *)
(***************************************************************************)
\* the record stored in the corpus under url
JsonOf(url) == vision_results[CHOOSE i \in DOMAIN vision_results : vision_results[i].url = url].json

One == [n |-> 1, d |-> 1]
Half == [n |-> 1, d |-> 2]

\* the number of active fields of query q, features counted one by one
ExpectedMax(q) ==
    (IF Lower(q.room_type) \notin {<<>>, <<"a", "n", "y">>} THEN 1 ELSE 0)
    + (IF q.max_capacity > 0 THEN 1 ELSE 0)
    + (IF Lower(q.view_type) \notin {<<>>, <<"a", "n", "y">>, <<"s", "t", "a", "n", "d", "a", "r", "d">>} THEN 1 ELSE 0)
    + Len(q.features)

\* the number of matched constraints of q on candidate c (case-insensitive)
ExpectedScore(q, c) ==
    (IF Lower(q.room_type) \notin {<<>>, <<"a", "n", "y">>} /\ IsSubstring(Lower(q.room_type), Lower(c.room_type)) THEN 1 ELSE 0)
    + (IF q.max_capacity > 0 /\ c.max_capacity >= q.max_capacity THEN 1 ELSE 0)
    + (IF Lower(q.view_type) \notin {<<>>, <<"a", "n", "y">>, <<"s", "t", "a", "n", "d", "a", "r", "d">>}
          /\ IsSubstring(Lower(q.view_type), Lower(c.view_type)) THEN 1 ELSE 0)
    + Cardinality({i \in DOMAIN q.features : \E j \in DOMAIN c.features : IsSubstring(Lower(q.features[i]), Lower(c.features[j]))})

\* s is the value num/den, or 0.0 when den = 0
IsQuotient(s, num, den) == IF den > 0 THEN s.d > 0 /\ s.n * den = num * s.d ELSE s = [n |-> 0, d |-> 1]

ScenarioSingleSearched ==
    op = "keyword_search" /\ query_json = ScenarioQuery /\ vision_results = <<Item("image1.jpg", ScenarioSingle)>>

\* C1 as stated: for the scenario query ("double", 2, "sea", [balcony, air
\* conditioning]) and the "single"/1/"sea view" candidate, keyword_search
\* records room_type and max_capacity as not matched, view_type as matched,
\* both features as matched, and scores the candidate 2/4 = 0.5.
C1_Original ==
    ScenarioSingleSearched
    => /\ Len(result) = 1
       /\ result[1].score = Half
       /\ result[1].details.room_type.match = FALSE
       /\ result[1].details.max_capacity.match = FALSE
       /\ result[1].details.view_type.match = TRUE
       /\ result[1].details.features.matches = <<Str_balcony, Str_air_conditioning>>

\* C1, amended: the same match flags and matched features, and the score
\* 3/5 = 0.6: each of the two requested features counts as one point of
\* max_score (3 matched points of 5).
C1_ScenarioSingle ==
    ScenarioSingleSearched
    => /\ Len(result) = 1
       /\ result[1].url = "image1.jpg"
       /\ result[1].score = [n |-> 3, d |-> 5]
       /\ result[1].details.room_type.match = FALSE
       /\ result[1].details.max_capacity.match = FALSE
       /\ result[1].details.view_type.match = TRUE
       /\ result[1].details.features.matches = <<Str_balcony, Str_air_conditioning>>

C1_Witness ==
    /\ ScenarioSingleSearched
    /\ args.keyword_min_score = Half
    /\ Len(result) = 1
    /\ result[1].details.features.matches = <<Str_balcony, Str_air_conditioning>>

\* C2: every score keyword_search returns is score/max_score, with max_score
\* the number of active fields (one per requested feature) and score the
\* number of them the candidate matches, and 0.0 when max_score = 0; with a
\* threshold of 0 every candidate of the corpus is returned with that score.
C2_ScoreFormula ==
    op = "keyword_search"
    => /\ \A i \in DOMAIN result :
            IsQuotient(result[i].score, ExpectedScore(query_json, JsonOf(result[i].url)), ExpectedMax(query_json))
       /\ args.keyword_min_score = Zero => Len(result) = Len(vision_results)

C2_Witness ==
    /\ op = "keyword_search"
    /\ ExpectedMax(query_json) = 5
    /\ \E i \in DOMAIN result : result[i].score = [n |-> 3, d |-> 5]

\* C3: every normalized_score keyword_search returns lies in [0, 1], also
\* for a query that repeats a feature and a candidate with several features
\* containing it.
C3_ScoreInUnitInterval ==
    op = "keyword_search"
    => \A i \in DOMAIN result : result[i].score.d > 0 /\ 0 <= result[i].score.n /\ result[i].score.n <= result[i].score.d

C3_Witness ==
    /\ op = "keyword_search"
    /\ query_json.features = <<Str_balcony, Str_balcony>>
    /\ \E i \in DOMAIN result :
          /\ JsonOf(result[i].url).features = <<Str_PrivateBalcony, Str_PrivateBalcony>>
          /\ result[i].score = One

\* every field of query q is inactive
AllInactive(q) ==
    /\ Lower(q.room_type) \in {<<>>, <<"a", "n", "y">>}
    /\ Lower(q.view_type) \in {<<>>, <<"a", "n", "y">>, <<"s", "t", "a", "n", "d", "a", "r", "d">>}
    /\ q.max_capacity = 0
    /\ q.features = <<>>

\* C4: for a query whose fields are all inactive, keyword_search scores every
\* candidate 0.0: it returns nothing when min_score > 0 (and everything,
\* scored 0.0, when min_score = 0), and hybrid_search with
\* keyword_min_score > 0 has no keyword-channel entry.
C4_InactiveQueryScoresZero ==
    AllInactive(query_json)
    => /\ op = "keyword_search"
          => /\ \A i \in DOMAIN result : result[i].score = Zero
             /\ RLess(Zero, args.keyword_min_score) => result = <<>>
             /\ args.keyword_min_score = Zero => Len(result) = Len(vision_results)
       /\ (op = "hybrid_search" /\ RLess(Zero, args.keyword_min_score))
          => /\ locals.keyword_scores = EmptyDict
             /\ \A i \in DOMAIN locals.sorted_results : locals.sorted_results[i].details.keyword_score = Zero

C4_Witness ==
    /\ AllInactive(query_json)
    /\ query_json.room_type = Str_Any
    /\ op = "hybrid_search"
    /\ args.keyword_min_score = Frac(3, 10)
    /\ Len(vision_results) = 2
    /\ Len(locals.sorted_results) > 0

\* the corpus holds a record and the same record with one more feature
ExtendedPair ==
    /\ Len(vision_results) = 2
    /\ \E f \in VisionFeaturePool :
          vision_results[2].json = [vision_results[1].json EXCEPT !.features = Append(@, f)]

MatchesOf(entry) == IF "features" \in DOMAIN entry.details THEN entry.details.features.matches ELSE <<>>

\* C5: appending one feature to a candidate's feature list never lowers its
\* normalized_score and never removes a query feature from its matched list.
C5_Monotone ==
    (op = "keyword_search" /\ ExtendedPair)
    => \A i \in DOMAIN result :
          result[i].url = vision_results[1].url
          => \E j \in DOMAIN result :
                /\ result[j].url = vision_results[2].url
                /\ RGeq(result[j].score, result[i].score)
                /\ Len(MatchesOf(result[j])) >= Len(MatchesOf(result[i]))
                /\ \A k \in DOMAIN MatchesOf(result[i]) : \E l \in DOMAIN MatchesOf(result[j]) : MatchesOf(result[j])[l] = MatchesOf(result[i])[k]

C5_Witness ==
    /\ op = "keyword_search" /\ ExtendedPair
    /\ Len(result) = 2
    /\ result[1].url = vision_results[2].url
    /\ RLess(result[2].score, result[1].score)
    /\ Len(MatchesOf(result[2])) > 0

\* the candidate's count of matched constraints over the query's count of
\* active constraints (0.0 when there is none) is at least min
ExpectedMeets(q, c, min) ==
    IF ExpectedMax(q) > 0 THEN ExpectedScore(q, c) * min.d >= min.n * ExpectedMax(q) ELSE 0 >= min.n

\* the identifiers whose normalized score reaches keyword_min_score
KeywordPassing ==
    {vision_results[i].url : i \in {k \in DOMAIN vision_results : ExpectedMeets(query_json, vision_results[k].json, args.keyword_min_score)}}

\* dot(a, b) / (norm(a) * norm(b)) is at least min
CosineMeets(a, b, min) == Dot(a, b) * min.d >= min.n * Norm(a) * Norm(b)

\* the identifiers with a description whose cosine similarity to the query
\* description, on the vectors the instance holds, reaches semantic_min_score
SemanticPassing ==
    IF query_json.description = "" THEN {}
    ELSE {vision_results[i].url : i \in {k \in DOMAIN vision_results :
              /\ vision_results[k].json.description # ""
              /\ CosineMeets(embedding_cache[query_json.description],
                             embedding_cache[vision_results[k].json.description], args.semantic_min_score)}}

\* C6: keyword_search returns exactly the candidates whose normalized score
\* is >= min_score (the boundary included); in hybrid_search exactly those
\* have a keyword-channel entry, and a ranked candidate without one carries
\* keyword_score 0.0 and a combined_score of semantic_weight * semantic_score.
C6_KeywordHardFilter ==
    /\ op = "keyword_search"
       => UrlsOf(result) = KeywordPassing /\ Len(result) = Cardinality(KeywordPassing)
    /\ op = "hybrid_search"
       => /\ DOMAIN locals.keyword_scores = KeywordPassing
          /\ \A i \in DOMAIN locals.sorted_results :
                locals.sorted_results[i].url \notin KeywordPassing
                => /\ locals.sorted_results[i].details.keyword_score = Zero
                   /\ IsQuotient(locals.sorted_results[i].score,
                                 semantic_weight.n * locals.sorted_results[i].details.semantic_score.n,
                                 semantic_weight.d * locals.sorted_results[i].details.semantic_score.d)

C6_Witness ==
    /\ op = "hybrid_search"
    /\ \E i \in DOMAIN result :
          /\ result[i].url \notin KeywordPassing
          /\ ExpectedScore(query_json, JsonOf(result[i].url)) > 0
          /\ result[i].details.keyword_score = Zero
    /\ \E j \in DOMAIN result :
          /\ result[j].url \in KeywordPassing
          /\ RLess(Zero, result[j].details.keyword_score)

\* C7: in hybrid_search a candidate has a semantic-channel entry exactly when
\* the query description and its own description are non-empty and their
\* cosine similarity is >= semantic_min_score.  A candidate without a
\* description has no entry, the provider is never asked about the empty
\* text, and when it passes the keyword filter it is ranked with
\* semantic_score 0.0 and returned if its rank is within max_results.
C7_SemanticHardFilter ==
    op = "hybrid_search"
    => /\ DOMAIN locals.semantic_scores = SemanticPassing
       /\ \A k \in DOMAIN provider_calls : provider_calls[k] # ""
       /\ \A i \in DOMAIN vision_results :
             vision_results[i].json.description = ""
             => /\ vision_results[i].url \notin DOMAIN locals.semantic_scores
                /\ vision_results[i].url \in KeywordPassing
                   => \E j \in DOMAIN locals.sorted_results :
                         /\ locals.sorted_results[j].url = vision_results[i].url
                         /\ locals.sorted_results[j].details.semantic_score = Zero
                         /\ (args.max_results >= j => j \in DOMAIN result /\ result[j] = locals.sorted_results[j])

C7_Witness ==
    /\ op = "hybrid_search"
    /\ query_json.description # ""
    /\ \E i \in DOMAIN result :
          /\ JsonOf(result[i].url).description = ""
          /\ result[i].details.semantic_score = Zero
          /\ RLess(Zero, result[i].details.keyword_score)
    /\ \E j \in DOMAIN result :
          /\ result[j].url \in DOMAIN locals.semantic_scores
          /\ result[j].details.semantic_score = args.semantic_min_score

\* C8: before truncation hybrid_search ranks exactly the identifiers that
\* pass the keyword filter or the semantic filter, each once, all of them
\* identifiers of the corpus.
C8_Union ==
    op = "hybrid_search"
    => /\ UrlsOf(locals.sorted_results) = KeywordPassing \cup SemanticPassing
       /\ Len(locals.sorted_results) = Cardinality(KeywordPassing \cup SemanticPassing)
       /\ UrlsOf(locals.sorted_results) \subseteq CorpusUrls

C8_Witness ==
    /\ op = "hybrid_search"
    /\ Len(locals.sorted_results) = 2
    /\ \E i, j \in DOMAIN locals.sorted_results :
          /\ locals.sorted_results[i].url \in KeywordPassing \ SemanticPassing
          /\ locals.sorted_results[j].url \in SemanticPassing \ KeywordPassing
    /\ Cardinality(CorpusUrls) = 2

\* the keyword score is that of the keyword channel, or 0.0 without an entry
KeywordScoreAsExpected(e) ==
    IF e.url \in KeywordPassing
    THEN IsQuotient(e.details.keyword_score, ExpectedScore(query_json, JsonOf(e.url)), ExpectedMax(query_json))
    ELSE e.details.keyword_score = Zero

\* the semantic score is the cosine similarity, or 0.0 without an entry
SemanticScoreAsExpected(e) ==
    IF e.url \in SemanticPassing
    THEN IsQuotient(e.details.semantic_score,
                    Dot(embedding_cache[query_json.description], embedding_cache[JsonOf(e.url).description]),
                    Norm(embedding_cache[query_json.description]) * Norm(embedding_cache[JsonOf(e.url).description]))
    ELSE e.details.semantic_score = Zero

\* C9: every tuple hybrid_search returns has combined_score =
\* keyword_weight * keyword_score + semantic_weight * semantic_score, the
\* weights taken as configured, a score missing from a channel being 0.0;
\* details carries the same combined_score and the two scores of the sum
\* (weights 0.6/0.4 with scores 1.0 and 0.5 give 0.8).
C9_CombinedScore ==
    op = "hybrid_search"
    => \A i \in DOMAIN result :
          /\ result[i].details.combined_score = result[i].score
          /\ KeywordScoreAsExpected(result[i])
          /\ SemanticScoreAsExpected(result[i])
          /\ IsQuotient(result[i].score,
                        keyword_weight.n * result[i].details.keyword_score.n * semantic_weight.d * result[i].details.semantic_score.d
                        + semantic_weight.n * result[i].details.semantic_score.n * keyword_weight.d * result[i].details.keyword_score.d,
                        keyword_weight.d * result[i].details.keyword_score.d * semantic_weight.d * result[i].details.semantic_score.d)
          /\ (/\ keyword_weight = [n |-> 3, d |-> 5] /\ semantic_weight = [n |-> 2, d |-> 5]
              /\ result[i].details.keyword_score = One /\ result[i].details.semantic_score = Half)
             => result[i].score = [n |-> 4, d |-> 5]

C9_Witness ==
    /\ op = "hybrid_search"
    /\ keyword_weight = [n |-> 3, d |-> 5] /\ semantic_weight = [n |-> 2, d |-> 5]
    /\ \E i \in DOMAIN result :
          /\ result[i].details.keyword_score = One
          /\ result[i].details.semantic_score = Half
          /\ result[i].score = [n |-> 4, d |-> 5]

IsPrefix(s, full) == Len(s) <= Len(full) /\ \A i \in DOMAIN s : s[i] = full[i]

\* the ranked list: the union candidates, each once, by combined_score descending
FullSortedList(full) ==
    /\ UrlsOf(full) = KeywordPassing \cup SemanticPassing
    /\ Len(full) = Cardinality(KeywordPassing \cup SemanticPassing)
    /\ \A i \in DOMAIN full : i < Len(full) => RGeq(full[i].score, full[i + 1].score)

\* C10 as stated: for every integer max_results the list hybrid_search
\* returns has length <= max_results and is a prefix of the full list of
\* union candidates sorted by combined_score descending.
C10_Original ==
    op = "hybrid_search"
    => /\ Len(result) <= args.max_results
       /\ IsPrefix(result, locals.sorted_results)
       /\ FullSortedList(locals.sorted_results)

\* C10, amended: for every integer max_results the returned list is a prefix
\* of the full sorted list, and for every max_results >= 0 its length is
\* <= max_results.
C10_Truncation ==
    op = "hybrid_search"
    => /\ args.max_results >= 0 => Len(result) <= args.max_results
       /\ IsPrefix(result, locals.sorted_results)
       /\ FullSortedList(locals.sorted_results)

C10_Witness ==
    /\ op = "hybrid_search"
    /\ args.max_results = 1
    /\ Len(locals.sorted_results) = 2
    /\ Len(result) = 1
    /\ RLess(locals.sorted_results[2].score, result[1].score)

(***************************************************************************)
(* The embedding cache over many calls on one instance                     *)
(***************************************************************************)
\* what the provider can answer for a text: the answer may differ from one
\* request to the next
CacheAnswers(text) ==
    CASE text = Desc_query -> {<<1, 1, 1, 1>>}
      [] text = Desc_image1 -> {<<2, 0, 0, 0>>, <<0, 0, 0, 2>>}
      [] text = Desc_image2 -> {<<1, 2, 2, 0>>, <<2, 2, 1, 0>>}
      [] text = Desc_image3 -> {<<0, 0, -2, 0>>}

CacheOracles == {f \in [Texts -> UNION {CacheAnswers(t) : t \in Texts}] : \A t \in Texts : f[t] \in CacheAnswers(t)}

CacheTexts == {Desc_query, Desc_image1, Desc_image2}

CacheQueries == {ScenarioQuery, Query(Str_double, 2, Str_sea, <<>>, "")}

\* corpora over which the searches of one session range
CacheCorpora ==
    {<<>>,
     <<Item("image1.jpg", ScenarioFull)>>,
     <<Item("image1.jpg", ScenarioFull), Item("image5.jpg", Candidate(Str_single, 1, Str_sea_view, <<>>, Desc_image1))>>,
     <<Item("image2.jpg", GardenDouble), Item("image4.jpg", Candidate(Str_suite, 4, Str_sea_view, <<>>, ""))>>,
     <<Item("image5.jpg", Candidate(Str_single, 1, Str_sea_view, <<>>, Desc_image1)), Item("image2.jpg", GardenDouble)>>}

InitCache ==
    /\ InitInstance(Frac(7, 10), Frac(3, 10))
    /\ query_json = ScenarioQuery
    /\ vision_results = <<>>
    /\ args = [keyword_min_score |-> Frac(3, 10), semantic_min_score |-> Frac(1, 2), max_results |-> 5]

\* a direct call of get_embedding(text), lines 31-43
GetEmbedding ==
    \E text \in CacheTexts, oracle \in CacheOracles :
        \E e \in {get_embedding([cache |-> embedding_cache, calls |-> provider_calls], text, oracle)} :
           /\ result' = e.embedding
           /\ embedding_cache' = e.cache
           /\ provider_calls' = e.calls
           /\ op' = "get_embedding"
           /\ locals' = [text |-> text]
           /\ UNCHANGED <<keyword_weight, semantic_weight, query_json, vision_results, args, image_descriptions>>

\* semantic_search called with a query and a corpus of the caller's choice
CacheSemanticSearch ==
    \E q_json \in CacheQueries, items \in CacheCorpora, oracle \in CacheOracles :
        \E r \in {semantic_search(q_json, items, [cache |-> embedding_cache, calls |-> provider_calls], oracle)} :
           /\ query_json' = q_json
           /\ vision_results' = items
           /\ result' = r.results
           /\ embedding_cache' = r.cache
           /\ provider_calls' = r.calls
           /\ op' = "semantic_search"
           /\ locals' = EmptyDict
           /\ UNCHANGED <<keyword_weight, semantic_weight, args, image_descriptions>>

\* hybrid_search called with a query and a corpus of the caller's choice
CacheHybridSearch ==
    \E q_json \in CacheQueries, items \in CacheCorpora, oracle \in CacheOracles :
      \E keyword_results \in {keyword_search(q_json, items, args.keyword_min_score)},
         semantic \in {semantic_search(q_json, items, [cache |-> embedding_cache, calls |-> provider_calls], oracle)} :
        \E hash_order \in Orderings(UrlsOf(items)) :
        \E r \in {HybridCombine(keyword_results, semantic, args.semantic_min_score, args.max_results,
                                 keyword_weight, semantic_weight, hash_order)} :
           /\ query_json' = q_json
           /\ vision_results' = items
           /\ result' = r.results
           /\ embedding_cache' = r.cache
           /\ provider_calls' = r.calls
           /\ op' = "hybrid_search"
           /\ locals' = [keyword_scores |-> r.keyword_scores, semantic_scores |-> r.semantic_scores,
                         all_urls |-> r.all_urls, sorted_results |-> r.sorted_results]
           /\ UNCHANGED <<keyword_weight, semantic_weight, args, image_descriptions>>

NextCache == GetEmbedding \/ CacheSemanticSearch \/ CacheHybridSearch

SpecCache == InitCache /\ [][NextCache]_vars

\* the texts the last call asked get_embedding about
LastRequested ==
    CASE op = "get_embedding" -> {locals.text}
      [] op \in {"semantic_search", "hybrid_search"} ->
            IF query_json.description = "" THEN {}
            ELSE {query_json.description}
                 \cup {vision_results[i].json.description : i \in {k \in DOMAIN vision_results : vision_results[k].json.description # ""}}
      [] OTHER -> {}

\* C11: over any sequence of get_embedding, semantic_search and hybrid_search
\* calls on one instance, each call asks the provider exactly once about
\* each requested text that is not cached and never about a cached one (so
\* the provider is called exactly once per distinct text requested), no
\* cache entry is removed or replaced, and get_embedding returns the vector
\* the cache holds for the text.
C11_CacheIdempotence ==
    [][/\ \A t \in DOMAIN embedding_cache : t \in DOMAIN embedding_cache' /\ embedding_cache'[t] = embedding_cache[t]
       /\ LastRequested' \subseteq DOMAIN embedding_cache'
       /\ DOMAIN embedding_cache' = {provider_calls'[i] : i \in DOMAIN provider_calls'}
       /\ \A i, j \in DOMAIN provider_calls' : i # j => provider_calls'[i] # provider_calls'[j]
       /\ SubSeq(provider_calls', 1, Len(provider_calls)) = provider_calls
       /\ {provider_calls'[i] : i \in (Len(provider_calls) + 1)..Len(provider_calls')} = LastRequested' \ DOMAIN embedding_cache
       /\ op' = "get_embedding" => result' = embedding_cache'[locals'.text]
      ]_vars

\* get_embedding answered from the cache for a text the provider was asked
\* about before other texts were
C11_Witness ==
    /\ op = "get_embedding"
    /\ Len(provider_calls) = 3
    /\ provider_calls[1] = locals.text
    /\ locals.text = Desc_image1
    /\ result = <<0, 0, 0, 2>>
    /\ embedding_cache[locals.text] = result

(***************************************************************************)
(* Records with missing keys and with null values                          *)
(***************************************************************************)
AllKeys == {"room_type", "max_capacity", "view_type", "features", "description"}

\* the record without the keys in keys
Without(rec, keys) == [k \in (DOMAIN rec) \ keys |-> rec[k]]

MissingQueries ==
    {Without(ScenarioQuery, K) : K \in SUBSET AllKeys}
    \cup {Query(Str_double, 2, Str_sea, <<Str_balcony, Str_air_conditioning>>, "")}
MissingCandidates == {Without(ScenarioFull, K) : K \in SUBSET AllKeys}

MissingCorpora ==
    {<<>>}
    \cup {<<Item("image1.jpg", c)>> : c \in MissingCandidates}
    \cup {<<Item("image3.jpg", ScenarioSingle), Item("image1.jpg", c)>> : c \in MissingCandidates}

InitMissing ==
    /\ InitInstance(Frac(7, 10), Frac(3, 10))
    /\ query_json \in MissingQueries
    /\ vision_results \in MissingCorpora
    /\ args \in [keyword_min_score : {Zero, Frac(3, 10)}, semantic_min_score : {Frac(1, 2)}, max_results : {1, 5}]

SpecMissing == InitMissing /\ [][Next]_vars

\* the record with each missing key at the value the claim gives it
Filled(rec) ==
    [k \in AllKeys |->
        IF k \in DOMAIN rec THEN rec[k]
        ELSE CASE k = "max_capacity" -> 0
               [] k = "description" -> ""
               [] OTHER -> <<>>]

ReturnedNormally == "raised" \notin DOMAIN locals

\* the keyword score an entry of the result carries
KeywordScoreOf(e) == IF op = "keyword_search" THEN e.score ELSE e.details.keyword_score

\* C12: with any subset of the five keys missing from the query and from a
\* candidate, and with the empty corpus, keyword_search and hybrid_search
\* return normally; a field missing from the query is not scored (no detail
\* entry for it); a field missing from the candidate is read as ""/0/[] and
\* matches no active constraint; the score is that of the records with the
\* missing fields at ""/0/[]; the empty corpus gives the empty list.
C12_MissingFields ==
    op \in {"keyword_search", "hybrid_search"}
    => /\ ReturnedNormally
       /\ vision_results = <<>> => result = <<>>
       /\ (op = "keyword_search" /\ args.keyword_min_score = Zero) => Len(result) = Len(vision_results)
       /\ \A i \in DOMAIN result :
             /\ \A k \in AllKeys \ DOMAIN query_json : k \notin DOMAIN result[i].details
             /\ \A k \in (DOMAIN result[i].details) \cap (AllKeys \ DOMAIN JsonOf(result[i].url)) :
                   /\ k \in {"room_type", "view_type"} => result[i].details[k].vision = <<>> /\ result[i].details[k].match = FALSE
                   /\ k = "max_capacity" => result[i].details[k].vision = 0 /\ result[i].details[k].match = FALSE
                   /\ k = "features" => result[i].details[k].vision = <<>> /\ result[i].details[k].matches = <<>>
             /\ "query_description" \in DOMAIN result[i].details
                => IsQuotient(KeywordScoreOf(result[i]),
                              ExpectedScore(Filled(query_json), Filled(JsonOf(result[i].url))),
                              ExpectedMax(Filled(query_json)))

C12_Witness ==
    /\ op = "hybrid_search"
    /\ DOMAIN query_json = {"room_type", "view_type", "features"}
    /\ Len(result) = 2
    /\ \E i \in DOMAIN result :
          /\ DOMAIN JsonOf(result[i].url) = {"max_capacity", "view_type"}
          /\ result[i].details.room_type.match = FALSE
          /\ result[i].details.features.matches = <<>>
          /\ result[i].details.keyword_score = [n |-> 1, d |-> 4]

\* the identifiers whose normalized score, missing fields read as ""/0/[],
\* reaches keyword_min_score
KeywordPassingFilled ==
    {vision_results[i].url : i \in {k \in DOMAIN vision_results :
        ExpectedMeets(Filled(query_json), Filled(vision_results[k].json), args.keyword_min_score)}}

\* C15: when the query description is empty or missing, semantic_search
\* returns the empty list and the provider is never called; hybrid_search
\* ranks exactly the candidates that pass the keyword filter, each with
\* semantic_score 0.0 and combined_score keyword_weight * keyword_score, and
\* returns them (the first max_results of them when there are more).
C15_SemanticInactive ==
    ("description" \notin DOMAIN query_json \/ query_json.description = "")
    => /\ provider_calls = <<>>
       /\ embedding_cache = EmptyDict
       /\ op = "semantic_search" => result = <<>>
       /\ op = "hybrid_search"
          => /\ UrlsOf(locals.sorted_results) = KeywordPassingFilled
             /\ Len(locals.sorted_results) = Cardinality(KeywordPassingFilled)
             /\ locals.semantic_scores = EmptyDict
             /\ \A i \in DOMAIN locals.sorted_results :
                   /\ locals.sorted_results[i].details.semantic_score = Zero
                   /\ IsQuotient(locals.sorted_results[i].details.keyword_score,
                                 ExpectedScore(Filled(query_json), Filled(JsonOf(locals.sorted_results[i].url))),
                                 ExpectedMax(Filled(query_json)))
                   /\ IsQuotient(locals.sorted_results[i].score,
                                 keyword_weight.n * locals.sorted_results[i].details.keyword_score.n,
                                 keyword_weight.d * locals.sorted_results[i].details.keyword_score.d)
             /\ IsPrefix(result, locals.sorted_results)
             /\ Len(result) = Min(args.max_results, Len(locals.sorted_results))

C15_Witness ==
    /\ op = "hybrid_search"
    /\ DOMAIN query_json = AllKeys \ {"description"}
    /\ Len(result) = 2
    /\ \A i \in DOMAIN result :
          /\ Get(JsonOf(result[i].url), "description", "") # ""
          /\ result[i].details.semantic_score = Zero
          /\ RLess(Zero, result[i].score)
    /\ result[1].score = [n |-> 7, d |-> 10]

\* the values with a null field
NullQueries ==
    {ScenarioQuery,
     Query(Str_Any, 0, Str_Standard, <<>>, Desc_query),
     [ScenarioQuery EXCEPT !.max_capacity = NoneCapacity],
     [ScenarioQuery EXCEPT !.room_type = NoneText],
     [ScenarioQuery EXCEPT !.view_type = NoneText],
     [ScenarioQuery EXCEPT !.description = NoneDescription]}

NullCandidates ==
    {ScenarioFull,
     [ScenarioFull EXCEPT !.max_capacity = NoneCapacity],
     [ScenarioFull EXCEPT !.room_type = NoneText],
     [ScenarioFull EXCEPT !.view_type = NoneText],
     [ScenarioFull EXCEPT !.description = NoneDescription]}

NullCorpora ==
    {<<>>}
    \cup {<<Item("image1.jpg", c)>> : c \in NullCandidates}
    \cup {<<Item("image3.jpg", ScenarioSingle), Item("image1.jpg", c)>> : c \in NullCandidates}

InitNull ==
    /\ InitInstance(Frac(7, 10), Frac(3, 10))
    /\ query_json \in NullQueries
    /\ vision_results \in NullCorpora
    /\ args \in [keyword_min_score : {Zero, Frac(3, 10)}, semantic_min_score : {Frac(1, 2)}, max_results : {5}]

SpecNull == InitNull /\ [][Next]_vars

\* C13: with max_capacity or a string field of the query or of a candidate
\* null, keyword_search and hybrid_search return a result instead of raising.
C13_NullTolerated ==
    op \in {"keyword_search", "hybrid_search"} => ReturnedNormally

(***************************************************************************)
(* The collaborators: QueryAgent.process_query (src/src/query_agent.py),   *)
(* VisionAgent.analyze_image and analyze_images (src/src/vision_agent.py)  *)
(***************************************************************************)
MaxImages == 2

\* str(e) of the exceptions the calls inside the try blocks raise
ErrorMessages == {"Connection error.", "Expecting value: line 1 column 1 (char 0)"}

\* what happens inside the try block of process_query: the chat completion
\* raises (line 34), json.loads raises (line 72), or a JSON object is parsed
QueryOutcomes ==
    {[kind |-> k, error |-> e, json |-> EmptyDict] : k \in {"create_raises", "loads_raises"}, e \in ErrorMessages}
    \cup {[kind |-> "ok", error |-> "", json |-> q] :
            q \in {ScenarioQuery, Query(Str_standard, 2, Str_standard, <<>>, Desc_query),
                   Query(<<>>, NoneCapacity, <<>>, <<>>, Desc_query)}}

\* lines 78-84
QueryFallback(e) == Query(Str_any, 2, Str_any, <<>>, "Error processing query: " \o e)

\* lines 32-84
process_query(outcome) == IF outcome.kind = "ok" THEN outcome.json ELSE QueryFallback(outcome.error)

\* lines 112-118
VisionFallback(e) ==
    Candidate(<<"u", "n", "k", "n", "o", "w", "n">>, 0, <<"u", "n", "k", "n", "o", "w", "n">>, <<>>,
              "Failed to analyze image: " \o e)

\* what happens inside the try block of analyze_image: reading the file
\* (line 52) or the download (line 54) raises, the chat completion raises
\* (line 60), json.loads raises (line 103), or a JSON object is parsed
VisionOutcomes(is_local) ==
    {[kind |-> k, error |-> e, json |-> EmptyDict] :
        k \in {IF is_local THEN "read_raises" ELSE "download_raises", "create_raises", "loads_raises"},
        e \in {"Connection error."}}
    \cup {[kind |-> "ok", error |-> "", json |-> c] : c \in {ScenarioFull, GardenDouble}}

\* variant: the fallback record is stored like a successful analysis
analyze_image_StoresFallback(st, image_path_or_url, outcome) ==
    IF outcome.kind = "ok"
    THEN [description |-> outcome.json, image_descriptions |-> Put(st, image_path_or_url, outcome.json)]
    ELSE [description |-> VisionFallback(outcome.error),
          image_descriptions |-> Put(st, image_path_or_url, VisionFallback(outcome.error))]

\* lines 49-118; st is image_descriptions; the record returned and
\* image_descriptions after the call
analyze_image(st, image_path_or_url, outcome) ==
    IF outcome.kind = "ok"
    THEN [description |-> outcome.json, image_descriptions |-> Put(st, image_path_or_url, outcome.json)]
    ELSE [description |-> VisionFallback(outcome.error), image_descriptions |-> st]

\* results[url] = ..., on a dict kept as the sequence of its items
SetItem(items, url, json) ==
    IF \E i \in DOMAIN items : items[i].url = url
    THEN [i \in DOMAIN items |-> IF items[i].url = url THEN Item(url, json) ELSE items[i]]
    ELSE Append(items, Item(url, json))

\* lines 122-125: the loop over image_urls from position i on;
\* st = [results, image_descriptions]
RECURSIVE AnalyzeLoop(_, _, _, _)
AnalyzeLoop(image_urls, outcomes, i, st) ==
    IF i > Len(image_urls) THEN st
    ELSE AnalyzeLoop(image_urls, outcomes, i + 1,
                     [results |-> SetItem(st.results, image_urls[i],
                                          analyze_image(st.image_descriptions, image_urls[i], outcomes[i]).description),
                      image_descriptions |-> analyze_image(st.image_descriptions, image_urls[i], outcomes[i]).image_descriptions])

\* lines 120-125
analyze_images(st, image_urls, outcomes) ==
    AnalyzeLoop(image_urls, outcomes, 1, [results |-> <<>>, image_descriptions |-> st])

\* the outcomes of the analyses of one analyze_images call: a failing
\* download or a parsed record
BatchOutcomes == {o \in VisionOutcomes(FALSE) : o.kind \in {"download_raises", "ok"}}

UserQueries == {"double room with sea view", ""}
ImageRefs == {"image1.jpg", "image2.jpg"}

InitAgents ==
    /\ InitInstance(Frac(7, 10), Frac(3, 10))
    /\ query_json = ScenarioQuery
    /\ vision_results = <<>>
    /\ args = [keyword_min_score |-> Frac(3, 10), semantic_min_score |-> Frac(1, 2), max_results |-> 5]

ProcessQuery ==
    \E user_query \in UserQueries, outcome \in QueryOutcomes :
        /\ result' = process_query(outcome)
        /\ op' = "process_query"
        /\ locals' = [user_query |-> user_query, outcome |-> outcome]
        /\ UNCHANGED <<keyword_weight, semantic_weight, embedding_cache, provider_calls, query_json, vision_results, args, image_descriptions>>

AnalyzeImage ==
    \E image_path_or_url \in ImageRefs, is_local \in BOOLEAN :
      \E outcome \in VisionOutcomes(is_local) :
        \E r \in {analyze_image(image_descriptions, image_path_or_url, outcome)} :
           /\ result' = r.description
           /\ image_descriptions' = r.image_descriptions
           /\ op' = "analyze_image"
           /\ locals' = [image_path_or_url |-> image_path_or_url, is_local |-> is_local, outcome |-> outcome]
           /\ UNCHANGED <<keyword_weight, semantic_weight, embedding_cache, provider_calls, query_json, vision_results, args>>

AnalyzeImages ==
    \E image_urls \in SeqsUpTo(ImageRefs, MaxImages) :
      \E outcomes \in [DOMAIN image_urls -> BatchOutcomes] :
        \E r \in {analyze_images(image_descriptions, image_urls, outcomes)} :
           /\ result' = r.results
           /\ image_descriptions' = r.image_descriptions
           /\ op' = "analyze_images"
           /\ locals' = [image_urls |-> image_urls, outcomes |-> outcomes]
           /\ UNCHANGED <<keyword_weight, semantic_weight, embedding_cache, provider_calls, query_json, vision_results, args>>

NextAgents == ProcessQuery \/ AnalyzeImage \/ AnalyzeImages

SpecAgents == InitAgents /\ [][NextAgents]_vars

\* C14: whenever the language-model call or the JSON parsing inside
\* process_query fails, process_query returns a record with the five fields,
\* every one of room_type, max_capacity, view_type and features inactive, and
\* a description carrying the error marker.
C14_FallbackUnconstrained ==
    (op = "process_query" /\ locals.outcome.kind # "ok")
    => /\ DOMAIN result = AllKeys
       /\ AllInactive(result)
       /\ result.description = "Error processing query: " \o locals.outcome.error

ExpectedAnalysis(outcome) ==
    IF outcome.kind = "ok" THEN outcome.json
    ELSE [room_type |-> <<"u", "n", "k", "n", "o", "w", "n">>, max_capacity |-> 0,
          view_type |-> <<"u", "n", "k", "n", "o", "w", "n">>, features |-> <<>>,
          description |-> "Failed to analyze image: " \o outcome.error]

\* the position of the last analysis of url in a call of analyze_images
LastAnalysis(image_urls, url) ==
    CHOOSE i \in DOMAIN image_urls : image_urls[i] = url /\ \A j \in DOMAIN image_urls : image_urls[j] = url => j <= i

\* C17: analyze_image returns on every outcome; when the download, the file
\* read, the model call or the JSON parsing fails it returns "unknown"/0/
\* "unknown"/[] with a failure description and leaves image_descriptions as
\* it was; analyze_images returns a mapping whose keys are exactly the input
\* identifiers, each mapped to the record of its own (last) analysis.
C17_AnalyzerFailSoft ==
    [][/\ op' = "analyze_image"
          => /\ result' = ExpectedAnalysis(locals'.outcome)
             /\ locals'.outcome.kind # "ok" => image_descriptions' = image_descriptions
       /\ op' = "analyze_images"
          => /\ UrlsOf(result') = {locals'.image_urls[i] : i \in DOMAIN locals'.image_urls}
             /\ Len(result') = Cardinality(UrlsOf(result'))
             /\ \A j \in DOMAIN result' :
                   result'[j].json = ExpectedAnalysis(locals'.outcomes[LastAnalysis(locals'.image_urls, result'[j].url)])
             /\ \A url \in ImageRefs :
                   (\A i \in DOMAIN locals'.image_urls : locals'.image_urls[i] = url => locals'.outcomes[i].kind # "ok")
                   => /\ url \in DOMAIN image_descriptions' <=> url \in DOMAIN image_descriptions
                      /\ url \in DOMAIN image_descriptions => image_descriptions'[url] = image_descriptions[url]
      ]_vars

C17_Witness ==
    /\ op = "analyze_images"
    /\ locals.image_urls = <<"image1.jpg", "image2.jpg">>
    /\ locals.outcomes[1].kind = "download_raises"
    /\ locals.outcomes[2].kind = "ok"
    /\ DOMAIN image_descriptions = {"image2.jpg"}
    /\ result[1].json.room_type = <<"u", "n", "k", "n", "o", "w", "n">>
    /\ result[1].json.description = "Failed to analyze image: Connection error."
    /\ result[2].json = image_descriptions["image2.jpg"]

\* C18: keyword_search, semantic_search, hybrid_search and
\* format_search_results leave the query record and every candidate record
\* of the corpus as they were (same keys, same values, same feature lists),
\* and of the instance's state only embedding_cache may change.
C18_InputsReadOnly ==
    [][op' \in {"keyword_search", "semantic_search", "hybrid_search", "format_search_results"}
       => /\ query_json' = query_json
          /\ vision_results' = vision_results
          /\ keyword_weight' = keyword_weight
          /\ semantic_weight' = semantic_weight
      ]_vars

C18_Witness ==
    /\ op = "format_search_results"
    /\ query_json = Query(Str_Any, 0, Str_Standard, <<>>, Desc_query)
    /\ Len(vision_results) = 2
    /\ result.found = 1
    /\ result.matches[1].query_description = "N/A"
    /\ DOMAIN embedding_cache = {Desc_query, Desc_image1, Desc_image2}

(***************************************************************************)
(* get_embedding called by several threads on the one shared instance      *)
(* (web_app.py: search_system is created once, line 14, and every /search  *)
(* request calls its hybrid_search, line 59).  locals[t] is the frame of    *)
(* the call thread t is in: the line it is at, its text, and its embedding  *)
(* once it has one.                                                        *)
(***************************************************************************)
Threads == {1, 2}

ThreadTexts == {Desc_image1, Desc_image2}

InitThreads ==
    /\ InitInstance(Frac(7, 10), Frac(3, 10))
    /\ query_json = ScenarioQuery
    /\ vision_results = <<>>
    /\ args = [keyword_min_score |-> Frac(3, 10), semantic_min_score |-> Frac(1, 2), max_results |-> 5]

\* thread t is at line pc of get_embedding
At(t, pc) == t \in DOMAIN locals /\ locals[t].pc = pc

\* thread t enters get_embedding(text)
ThreadCall ==
    \E t \in Threads \ DOMAIN locals, text \in ThreadTexts :
        /\ locals' = Put(locals, t, [pc |-> "line33", text |-> text, embedding |-> <<>>])
        /\ op' = "get_embedding"
        /\ UNCHANGED <<keyword_weight, semantic_weight, embedding_cache, provider_calls, query_json, vision_results, args, result, image_descriptions>>

\* lines 33-34: the test, and the cached vector on a hit
ThreadCheck ==
    \E t \in Threads :
        /\ At(t, "line33")
        /\ locals' = IF locals[t].text \in DOMAIN embedding_cache
                     THEN [locals EXCEPT ![t].pc = "return", ![t].embedding = embedding_cache[locals[t].text]]
                     ELSE [locals EXCEPT ![t].pc = "line36"]
        /\ UNCHANGED <<keyword_weight, semantic_weight, embedding_cache, provider_calls, query_json, vision_results, args, op, result, image_descriptions>>

\* lines 36-41: the request to the provider and its answer
ThreadCreate ==
    \E t \in Threads :
        /\ At(t, "line36")
        /\ \E answer \in CacheAnswers(locals[t].text) :
              locals' = [locals EXCEPT ![t].pc = "line42", ![t].embedding = answer]
        /\ provider_calls' = Append(provider_calls, locals[t].text)
        /\ UNCHANGED <<keyword_weight, semantic_weight, embedding_cache, query_json, vision_results, args, op, result, image_descriptions>>

\* line 42
ThreadStore ==
    \E t \in Threads :
        /\ At(t, "line42")
        /\ embedding_cache' = Put(embedding_cache, locals[t].text, locals[t].embedding)
        /\ locals' = [locals EXCEPT ![t].pc = "return"]
        /\ UNCHANGED <<keyword_weight, semantic_weight, provider_calls, query_json, vision_results, args, op, result, image_descriptions>>

\* lines 34 and 43: the call returns its embedding
ThreadReturn ==
    \E t \in Threads :
        /\ At(t, "return")
        /\ result' = locals[t].embedding
        /\ locals' = [u \in (DOMAIN locals) \ {t} |-> locals[u]]
        /\ UNCHANGED <<keyword_weight, semantic_weight, embedding_cache, provider_calls, query_json, vision_results, args, op, image_descriptions>>

NextThreads == ThreadCall \/ ThreadCheck \/ ThreadCreate \/ ThreadStore \/ ThreadReturn

SpecThreads == InitThreads /\ [][NextThreads]_vars

\* C19: however the steps of two threads calling get_embedding interleave,
\* the provider is called at most once for a text.
C19_AtMostOncePerText ==
    \A i, j \in DOMAIN provider_calls : i # j => provider_calls[i] # provider_calls[j]

\* what hybrid_search returns for the query, corpus, arguments, weights and
\* embedding vectors of the state when the identifiers are iterated in
\* hash_order (the vectors are those the instance holds after the call)
Rerun(hash_order) ==
    HybridCombine(keyword_search(query_json, vision_results, args.keyword_min_score),
                  semantic_search(query_json, vision_results,
                                  [cache |-> embedding_cache, calls |-> provider_calls],
                                  CHOOSE oracle \in Oracles : TRUE),
                  args.semantic_min_score, args.max_results, keyword_weight, semantic_weight,
                  hash_order).results

\* C20: for a fixed query, corpus, thresholds, weights, max_results and
\* embedding vectors the sequence hybrid_search returns is the same whatever
\* the iteration order of the identifier set, ties and truncation included.
C20_Deterministic ==
    (op = "hybrid_search" /\ ReturnedNormally)
    => \A hash_order \in Orderings(CorpusUrls) : Rerun(hash_order) = result

(***************************************************************************)
(* Ordering, details and presentation of the results                       *)
(***************************************************************************)
\* the combined score of union candidate url, from the two channels' scores
\* of the call
UnionScore(url) ==
    CombinedScore(keyword_weight, semantic_weight,
                  Get(locals.keyword_scores, url, Zero), Get(locals.semantic_scores, url, Zero))

\* C21: in the list hybrid_search returns combined_score is non-increasing
\* from each entry to the next, and every union candidate that is not
\* returned has a combined_score <= that of every returned candidate.
C21_FinalOrdering ==
    op = "hybrid_search"
    => /\ \A i \in DOMAIN result : i < Len(result) => RGeq(result[i].score, result[i + 1].score)
       /\ \A i \in DOMAIN result : result[i].url \in locals.all_urls /\ result[i].score = UnionScore(result[i].url)
       /\ \A u \in locals.all_urls \ UrlsOf(result) :
             \A i \in DOMAIN result : RGeq(result[i].score, UnionScore(u))

C21_Witness ==
    /\ op = "hybrid_search"
    /\ Cardinality(locals.all_urls) = 2
    /\ Len(result) = 1
    /\ \E u \in locals.all_urls \ UrlsOf(result) : RLess(UnionScore(u), result[1].score)
    /\ keyword_weight = Frac(7, 10)

\* the position at which vision_results.items() yields url
CorpusPosition(url) == CHOOSE i \in DOMAIN vision_results : vision_results[i].url = url

\* C22: keyword_search returns its candidates sorted by normalized_score
\* descending, and candidates with equal normalized_score appear in the order
\* in which vision_results yields them.
C22_StableKeywordOrder ==
    op = "keyword_search"
    => \A i, j \in DOMAIN result :
          i < j => /\ RGeq(result[i].score, result[j].score)
                   /\ result[i].score = result[j].score
                      => CorpusPosition(result[i].url) < CorpusPosition(result[j].url)

C22_Witness ==
    /\ op = "keyword_search"
    /\ Len(result) = 2
    /\ result[1].score = result[2].score
    /\ RLess(Zero, result[1].score)
    /\ result[1].url = vision_results[1].url
    /\ result[2].url = vision_results[2].url

\* C23: a candidate hybrid_search returns without a keyword-channel entry
\* has a detail of exactly three annotations: keyword_score = 0.0, its
\* semantic_score, and combined_score = semantic_weight * semantic_score;
\* there is no per-field entry.
C23_SemanticOnlyDetail ==
    op = "hybrid_search"
    => \A i \in DOMAIN result :
          result[i].url \notin DOMAIN locals.keyword_scores
          => /\ DOMAIN result[i].details = {"keyword_score", "semantic_score", "combined_score"}
             /\ result[i].details.keyword_score = Zero
             /\ result[i].details.semantic_score = locals.semantic_scores[result[i].url]
             /\ result[i].details.combined_score = RMul(semantic_weight, result[i].details.semantic_score)
             /\ result[i].score = result[i].details.combined_score

C23_Witness ==
    /\ op = "hybrid_search"
    /\ Len(result) = 2
    /\ \E i, j \in DOMAIN result :
          /\ result[i].url \notin DOMAIN locals.keyword_scores
          /\ RLess(Zero, result[i].details.semantic_score)
          /\ ExpectedScore(query_json, JsonOf(result[i].url)) > 0
          /\ result[j].url \in DOMAIN locals.keyword_scores
          /\ "room_type" \in DOMAIN result[j].details

\* the fields of query q that are active
ActiveFields(q) ==
    (IF Lower(q.room_type) \notin {<<>>, <<"a", "n", "y">>} THEN {"room_type"} ELSE {})
    \cup (IF q.max_capacity > 0 THEN {"max_capacity"} ELSE {})
    \cup (IF Lower(q.view_type) \notin {<<>>, <<"a", "n", "y">>, <<"s", "t", "a", "n", "d", "a", "r", "d">>}
          THEN {"view_type"} ELSE {})
    \cup (IF q.features # <<>> THEN {"features"} ELSE {})

\* the per-field entries of a detail
FieldKeys(details) == (DOMAIN details) \cap {"room_type", "max_capacity", "view_type", "features"}

\* C24: the detail of every candidate keyword_search scores has an entry for
\* a field exactly when the field is active in the query (room_type: lowered,
\* non-empty and not "any"; max_capacity: > 0; view_type: lowered, non-empty
\* and not "any" or "standard"; features: a non-empty list), so every
\* candidate's detail has the same keys.
C24_DetailKeys ==
    op = "keyword_search"
    => /\ \A i \in DOMAIN result : FieldKeys(result[i].details) = ActiveFields(query_json)
       /\ \A i, j \in DOMAIN result : DOMAIN result[i].details = DOMAIN result[j].details
       /\ args.keyword_min_score = Zero => Len(result) = Len(vision_results)

C24_Witness ==
    /\ op = "keyword_search"
    /\ query_json.room_type = Str_double
    /\ query_json.max_capacity = 0
    /\ query_json.view_type = Str_Standard
    /\ Len(query_json.features) = 2
    /\ Len(result) = 2
    /\ FieldKeys(result[1].details) = {"room_type", "features"}
    /\ FieldKeys(result[2].details) = {"room_type", "features"}
    /\ result[1].details.features.matches # result[2].details.features.matches

\* the lowered features of query q contained in a lowered feature of
\* candidate c, in query order
ExpectedMatches(q, c) ==
    LET Contained(f) == \E j \in DOMAIN c.features : IsSubstring(f, Lower(c.features[j]))
    IN SelectSeq(LowerAll(q.features), Contained)

\* the points of candidate c on the fields of q other than features
FieldPoints(q, c) ==
    (IF Lower(q.room_type) \notin {<<>>, <<"a", "n", "y">>} /\ IsSubstring(Lower(q.room_type), Lower(c.room_type)) THEN 1 ELSE 0)
    + (IF q.max_capacity > 0 /\ c.max_capacity >= q.max_capacity THEN 1 ELSE 0)
    + (IF Lower(q.view_type) \notin {<<>>, <<"a", "n", "y">>, <<"s", "t", "a", "n", "d", "a", "r", "d">>}
          /\ IsSubstring(Lower(q.view_type), Lower(c.view_type)) THEN 1 ELSE 0)

\* C25: the matched-feature list keyword_search records is the subsequence,
\* in query order, of the lowered query features contained in at least one
\* lowered candidate feature, each counted once however many candidate
\* features contain it; it is no longer than the query's list, it adds its
\* length to the score, and the candidate list recorded beside it is the
\* candidate's whole (lowered) feature list.
C25_FeatureMatching ==
    op = "keyword_search"
    => \A i \in DOMAIN result :
          /\ MatchesOf(result[i]) = ExpectedMatches(query_json, JsonOf(result[i].url))
          /\ Len(MatchesOf(result[i])) <= Len(query_json.features)
          /\ IsQuotient(result[i].score,
                        FieldPoints(query_json, JsonOf(result[i].url)) + Len(MatchesOf(result[i])),
                        ExpectedMax(query_json))
          /\ query_json.features # <<>>
             => /\ result[i].details.features.query = LowerAll(query_json.features)
                /\ result[i].details.features.vision = LowerAll(JsonOf(result[i].url).features)

C25_Witness ==
    /\ op = "keyword_search"
    /\ query_json.features = <<Str_balcony, Str_tv>>
    /\ \E i \in DOMAIN result :
          /\ result[i].details.features.vision = <<Str_private_balcony, Str_private_balcony>>
          /\ result[i].details.features.matches = <<Str_balcony>>
          /\ JsonOf(result[i].url).features = <<Str_PrivateBalcony, Str_PrivateBalcony>>
          /\ RLess(Zero, result[i].score)

(***************************************************************************)
(* The /search handler of the web application (src/src/web_app.py)         *)
(***************************************************************************)
Str_Unknown == <<"U", "n", "k", "n", "o", "w", "n">>

\* round(x * 100): the nearest integer, ties to even
Percent(x) ==
    LET q == (100 * x.n) \div x.d
        r == (100 * x.n) % x.d
    IN IF 2 * r > x.d \/ (2 * r = x.d /\ q % 2 = 1) THEN q + 1 ELSE q

\* lines 89-102: result['matches']
WebMatches(details) ==
    [k \in (DOMAIN details) \cap {"room_type", "max_capacity", "view_type", "features"} |->
        IF k = "features"
        THEN [query |-> details[k].query, matches |-> details[k].matches]
        ELSE details[k].match]

\* lines 69-104: the entry of formatted_results for result number i
WebResult(i, entry, items) ==
    [rank |-> i, url |-> entry.url, image_url |-> entry.url,
     combined_score |-> Percent(entry.score),
     keyword_score |-> Percent(Get(entry.details, "keyword_score", Zero)),
     semantic_score |-> Percent(Get(entry.details, "semantic_score", Zero)),
     room_type |-> Get(VisionGet(items, entry.url), "room_type", Str_Unknown),
     max_capacity |-> Get(VisionGet(items, entry.url), "max_capacity", 0),
     view_type |-> Get(VisionGet(items, entry.url), "view_type", Str_Unknown),
     features |-> Get(VisionGet(items, entry.url), "features", <<>>),
     description |-> Get(VisionGet(items, entry.url), "description", ""),
     query_description |-> Get(entry.details, "query_description", ""),
     matches |-> WebMatches(entry.details)]

\* lines 66-112: the response built from what hybrid_search returned
WebResponse(user_query, structured_query, search_results, items) ==
    [status |-> "success", query |-> user_query, structured_query |-> structured_query,
     results |-> [i \in DOMAIN search_results |-> WebResult(i, search_results[i], items)],
     count |-> Len(search_results)]

\* the texts the handler's searches embed, and the provider's answers
WebTexts == Texts \cup {QueryFallback(e).description : e \in ErrorMessages}

WebOracles ==
    {[t \in WebTexts |-> IF t \in Texts THEN CHOOSE v \in ProviderAnswers(t) : TRUE ELSE <<1, 1, 1, 1>>]}

\* what process_query does in a request: the chat completion raises, or a
\* JSON object is parsed
SearchOutcomes == {o \in QueryOutcomes : o.kind = "ok" \/ (o.kind = "create_raises" /\ o.error = "Connection error.")}

WebQueries == {ScenarioQuery, Query(<<>>, 0, <<>>, <<>>, Desc_query)}
WebSemanticMinScores == {Frac(-1, 1), Zero, Frac(1, 2)}

\* the shared search system: a HybridSearch instance and the analyzed images
InitWeb ==
    /\ \E w \in Weights : InitInstance(w[1], w[2])
    /\ query_json \in WebQueries
    /\ vision_results \in Corpora
    /\ args \in [keyword_min_score : {Zero}, semantic_min_score : WebSemanticMinScores, max_results : {5}]

\* search(), lines 46-112: an empty query is refused; otherwise the query is
\* structured by process_query, hybrid_search is called with thresholds 0.3
\* and 0.5 and max_results 5, and the results are formatted
Search ==
    \E user_query \in UserQueries :
      IF user_query = ""
      THEN /\ result' = [status |-> "error", message |-> "Query cannot be empty."]
           /\ op' = "search"
           /\ locals' = [user_query |-> user_query]
           /\ UNCHANGED <<keyword_weight, semantic_weight, embedding_cache, provider_calls, query_json, vision_results, args, image_descriptions>>
      ELSE
      \E outcome \in SearchOutcomes :
        \E q \in {process_query(outcome)} :
          IF keyword_search_raises(q, vision_results)
          THEN Raise("search")
          ELSE
          \E oracle \in WebOracles :
            \E keyword_results \in {keyword_search(q, vision_results, Frac(3, 10))},
               semantic \in {semantic_search(q, vision_results, [cache |-> embedding_cache, calls |-> provider_calls], oracle)} :
              \E hash_order \in Orderings(AllUrls(ScoreDict(keyword_results), SemanticScores(semantic.results, Frac(1, 2)))) :
              \E r \in {HybridCombine(keyword_results, semantic, Frac(1, 2), 5, keyword_weight, semantic_weight, hash_order)} :
                 /\ result' = WebResponse(user_query, q, r.results, vision_results)
                 /\ embedding_cache' = r.cache
                 /\ provider_calls' = r.calls
                 /\ op' = "search"
                 /\ locals' = [user_query |-> user_query, query_json |-> q, search_results |-> r.results]
                 /\ UNCHANGED <<keyword_weight, semantic_weight, query_json, vision_results, args, image_descriptions>>

NextWeb == HybridSearch \/ Search

SpecWeb == InitWeb /\ [][NextWeb]_vars

\* the weights are non-negative and sum to at most 1
WeightsWithinOne ==
    /\ RGeq(keyword_weight, Zero)
    /\ RGeq(semantic_weight, Zero)
    /\ RGeq(One, RAdd(keyword_weight, semantic_weight))

InUnitInterval(x) == RGeq(x, Zero) /\ RGeq(One, x)

\* C26: with non-negative weights of sum <= 1 and semantic_min_score >= 0,
\* every combined_score hybrid_search returns lies in [0, 1], as do the
\* keyword and semantic scores of the detail, and the three percentages the
\* /search handler computes from them lie in 0..100.
C26_ScoresWithinRange ==
    WeightsWithinOne
    => /\ (op = "hybrid_search" /\ RGeq(args.semantic_min_score, Zero))
          => \A i \in DOMAIN result :
                /\ InUnitInterval(result[i].score)
                /\ InUnitInterval(result[i].details.keyword_score)
                /\ InUnitInterval(result[i].details.semantic_score)
                /\ Percent(result[i].score) \in 0..100
       /\ (op = "search" /\ ReturnedNormally /\ locals.user_query # "")
          => /\ \A i \in DOMAIN locals.search_results : InUnitInterval(locals.search_results[i].score)
             /\ \A i \in DOMAIN result.results :
                   /\ result.results[i].combined_score \in 0..100
                   /\ result.results[i].keyword_score \in 0..100
                   /\ result.results[i].semantic_score \in 0..100

C26_Witness ==
    /\ WeightsWithinOne
    /\ op = "search" /\ ReturnedNormally /\ locals.user_query # ""
    /\ \E i, j \in DOMAIN result.results :
          /\ result.results[i].keyword_score = 100
          /\ result.results[i].semantic_score > 0
          /\ result.results[i].combined_score > result.results[j].combined_score
          /\ result.results[j].semantic_score > result.results[i].semantic_score

====
